---- MODULE Spec2Model ----
(***************************************************************************)
(* A model of the W-NOMINATE preparation pipeline:                         *)
(*   - the result cache of src/src/wnominate_api.py (generate_vote_hash,   *)
(*     store_wnominate_result, create_wnominate_indexes,                   *)
(*     cleanup_old_results, calculate_wnominate_with_provided_hash, main), *)
(*   - the period assignment of the DW-NOMINATE exporters,                 *)
(*   - their quality filter of a period matrix and their run up to the     *)
(*     matrix files.                                                       *)
(*   - generate_payload and export_votes_for_r_wnominate, which build the  *)
(*     payload and the vote matrix from the store,                         *)
(*   - apply_polarity_correction.                                          *)
(* Python strings are sequences of one-character strings; a datetime is a  *)
(* number of seconds; the MongoDB collection is the sequence of its        *)
(* documents in insertion (natural) order.                                 *)
(***************************************************************************)
EXTENDS Integers, Sequences, FiniteSets, TLC

VARIABLES
    collection,   \* db["dwnominate_calculations"]: sequence of documents
    uniqueIndex,  \* whether the unique index on result_hash exists
    now,          \* datetime.utcnow(), in ticks (one tick = one day)
    pc,           \* per invocation of main: idle, computed, done, error
    req,          \* per invocation: its arguments
    res,          \* per invocation: what calculate_wnominate returned
    stored,       \* per invocation: storage_success
    ret,          \* per invocation: the dict returned to main
    lastOp,       \* the operation that made the last step, with its return
    hIds,         \* generate_vote_hash: votation_ids of the first call
    hParams,      \* generate_vote_hash: calculation_params (insertion order)
    hIds2,        \* votation_ids of the second call
    hParams2,     \* calculation_params of the second call
    hOut,         \* the two fingerprints returned
    fecha,        \* a row of vote_metadata.csv: its 'fecha' field
    script,       \* the exporter that assigned the row
    period,       \* the period the row was assigned to
    excluded,     \* the number of rows the script reports as left without a period
    period_matrix,    \* the votes of one period: legislators x ballots over {0, 1, 9}
    fscript,          \* the script whose quality filter ran on period_matrix
    filtered_matrix,  \* the matrix after the participation cuts
    final_matrix,     \* the matrix the script keeps for the period
    unanimous_count,  \* the number of unanimous ballots the script reports removed
    refiltered,       \* the result of the same filter on final_matrix
    votes_df,         \* votes_matrix.csv of a whole run
    vote_meta,        \* vote_metadata.csv of the run: the 'fecha' of each ballot
    rscript,          \* the exporter that runs
    stage,            \* how far the run is
    period_matrices,  \* the dict period id -> matrix, in insertion order
    all_legislators,  \* the common legislator list
    files,            \* the matrix files written
    period_vote_ids,  \* the vote ids the metadata lists for one period
    votaciones,       \* the ids of the documents of db["votaciones"]
    votos_diputados,  \* db["VotosDiputados"]: per ballot, its document if any
    payload,          \* what generate_payload returned or raised
    vote_matrix,      \* what export_votes_for_r_wnominate wrote or returned
    built,            \* the builder that ran
    idpt,             \* results['idpt']: the members' coordinates, in dict order
    partido,          \* db["parlamentarios"]: the party of each member
    idpt_before,      \* results['idpt'] as it was when the last call began
    returned,         \* what each call of apply_polarity_correction returned
    raised            \* where each call entered its except branch, if it did

vars == <<collection, uniqueIndex, now, pc, req, res, stored, ret, lastOp,
          hIds, hParams, hIds2, hParams2, hOut, fecha, script, period, excluded,
          period_matrix, fscript, filtered_matrix, final_matrix, unanimous_count, refiltered,
          votes_df, vote_meta, rscript, stage, period_matrices, all_legislators, files,
          period_vote_ids, votaciones, votos_diputados, payload, vote_matrix, built,
          idpt, partido, idpt_before, returned, raised>>

cacheVars == <<collection, uniqueIndex, now, pc, req, res, stored, ret, lastOp>>
hashVars == <<hIds, hParams, hIds2, hParams2, hOut>>
periodVars == <<fecha, script, period, excluded>>
filterVars == <<period_matrix, fscript, filtered_matrix, final_matrix, unanimous_count, refiltered>>
runVars == <<votes_df, vote_meta, rscript, stage, period_matrices, all_legislators, files>>
buildVars == <<period_vote_ids, votaciones, votos_diputados, payload, vote_matrix, built>>
polarityVars == <<idpt, partido, idpt_before, returned, raised>>
matrixVars == <<filterVars, runVars, buildVars, polarityVars>>

None == "None"

\* a DataFrame: its index (rows), its columns and its cells
EmptyFrame == [index |-> <<>>, columns |-> <<>>, cell |-> <<>>]

(***************************************************************************)
(* Bounds of the model.                                                    *)
(***************************************************************************)
MaxProcs == 2
MaxTime == 2
MaxDays == 2
MaxAccess == 2
MaxWriters == 2
MaxIds == 2
MaxParams == 2


(***************************************************************************)
(* Strings, str() and sorted().                                            *)
(***************************************************************************)
\* ord(c) for the characters the model uses
Ord(c) ==
    CASE c = "," -> 44
      [] c = "-" -> 45
      [] c = "." -> 46
      [] c = "0" -> 48
      [] c = "1" -> 49
      [] c = "2" -> 50
      [] c = "3" -> 51
      [] c = "4" -> 52
      [] c = "5" -> 53
      [] c = "6" -> 54
      [] c = "7" -> 55
      [] c = "8" -> 56
      [] c = "9" -> 57
      [] c = ":" -> 58
      [] c = "_" -> 95
      [] c = "a" -> 97
      [] c = "b" -> 98
      [] c = "c" -> 99
      [] c = "d" -> 100
      [] c = "e" -> 101
      [] c = "i" -> 105
      [] c = "l" -> 108
      [] c = "m" -> 109
      [] c = "n" -> 110
      [] c = "o" -> 111
      [] c = "p" -> 112
      [] c = "r" -> 114
      [] c = "s" -> 115
      [] c = "t" -> 116
      [] c = "x" -> 120
      [] c = "|" -> 124

\* Python's s < t on str: lexicographic by code point
RECURSIVE StrLess(_, _)
StrLess(s, t) ==
    IF t = <<>> THEN FALSE
    ELSE IF s = <<>> THEN TRUE
    ELSE IF Ord(Head(s)) # Ord(Head(t)) THEN Ord(Head(s)) < Ord(Head(t))
    ELSE StrLess(Tail(s), Tail(t))

Digit(d) == <<"0", "1", "2", "3", "4", "5", "6", "7", "8", "9">>[d + 1]

\* str(n) for an int
RECURSIVE NatStr(_)
NatStr(n) == IF n < 10 THEN <<Digit(n)>> ELSE NatStr(n \div 10) \o <<Digit(n % 10)>>

IntStr(n) == IF n < 0 THEN <<"-">> \o NatStr(-n) ELSE NatStr(n)

\* str(v) as the f-string f"{k}:{v}" applies it: an int prints its digits, a
\* str prints itself, a float prints its repr (carried as text)
\* (a value is [t: its type, i: the int, s: the text])
PyStr(v) == IF v.t = "int" THEN IntStr(v.i) ELSE v.s

PyInt(n) == [t |-> "int", i |-> n, s |-> <<>>]
PyText(s) == [t |-> "str", i |-> 0, s |-> s]
PyFloat(repr) == [t |-> "float", i |-> 0, s |-> repr]

\* ",".join(parts)
RECURSIVE Join(_)
Join(parts) ==
    IF parts = <<>> THEN <<>>
    ELSE IF Len(parts) = 1 THEN parts[1]
    ELSE parts[1] \o <<",">> \o Join(Tail(parts))

\* sorted(votation_ids): insertion of each element into the sorted rest
RECURSIVE InsertInt(_, _)
InsertInt(x, s) ==
    IF s = <<>> THEN <<x>>
    ELSE IF x <= Head(s) THEN <<x>> \o s
    ELSE <<Head(s)>> \o InsertInt(x, Tail(s))

RECURSIVE SortedIdsOf(_)
SortedIdsOf(ids) ==
    IF ids = <<>> THEN <<>> ELSE InsertInt(Head(ids), SortedIdsOf(Tail(ids)))

UnsortedIds(ids) == ids

SortedIds(ids) == SortedIdsOf(ids)

\* sorted(calculation_params.items()): the keys of a dict are distinct, so the
\* tuples (k, v) are ordered by k alone
RECURSIVE InsertItem(_, _)
InsertItem(x, s) ==
    IF s = <<>> THEN <<x>>
    ELSE IF StrLess(x[1], Head(s)[1]) THEN <<x>> \o s
    ELSE <<Head(s)>> \o InsertItem(x, Tail(s))

RECURSIVE SortedItemsOf(_)
SortedItemsOf(items) ==
    IF items = <<>> THEN <<>> ELSE InsertItem(Head(items), SortedItemsOf(Tail(items)))

UnsortedItems(items) == items

SortedItems(items) == SortedItemsOf(items)

\* f"{k}:{v}" for each item
ItemStrs(items) == [i \in 1..Len(items) |-> items[i][1] \o <<":">> \o PyStr(items[i][2])]

\* hash_input of generate_vote_hash; calculation_params is the sequence of the
\* dict's items in insertion order (None and {} are both falsy: <<>>)
HashInput(votation_ids, calculation_params) ==
    LET sorted_ids == SortedIds(votation_ids)
        ids_str == Join([i \in 1..Len(sorted_ids) |-> IntStr(sorted_ids[i])])
    IN  IF calculation_params # <<>>
        THEN ids_str \o <<"|">> \o Join(ItemStrs(SortedItems(calculation_params)))
        ELSE ids_str

\* hashlib.sha256(...).hexdigest(): a collision-free digest of its input
Sha256(s) == <<"sha256", s>>

generate_vote_hash(votation_ids, calculation_params) ==
    Sha256(HashInput(votation_ids, calculation_params))

(***************************************************************************)
(* The result cache and the pipeline that writes it.                       *)
(***************************************************************************)
Procs == 1..MaxProcs

\* the --votation-ids of a request
IdLists == {<<2, 1>>}

\* what the estimator can return: generate_payload draws the initial
\* coordinates with an unseeded random.uniform, so the same request can give
\* different results
Results == {"rA", "rB"}

\* calculation_params as calculate_wnominate_with_provided_hash builds it from
\* main's defaults, in insertion order
DefaultParams ==
    << <<<<"m", "a", "x", "i", "t", "e", "r">>, PyInt(10)>>,
       <<<<"c", "o", "r", "e", "s">>, PyInt(1)>>,
       <<<<"x", "t", "o", "l">>, PyFloat(<<"0", ".", "0", "0", "0", "1">>)>>,
       <<<<"d", "b", "_", "n", "a", "m", "e">>,
         PyText(<<"d", "a", "t", "a", "b", "a", "s", "e", "_",
                  "e", "x", "a", "m", "p", "l", "e">>)>> >>

\* the --result-hash values a caller presents: the fingerprint of the request
\* and the fingerprint of another one
Hashes == {generate_vote_hash(<<2, 1>>, DefaultParams), generate_vote_hash(<<1>>, DefaultParams)}

HasEntry(coll, h) == \E i \in 1..Len(coll) : coll[i].result_hash = h

\* the first document with this hash, in natural order
FirstEntry(coll, h) ==
    CHOOSE i \in 1..Len(coll) :
        /\ coll[i].result_hash = h
        /\ \A j \in 1..(i - 1) : coll[j].result_hash # h

\* result_document of store_wnominate_result
ResultDocument(result_hash, votation_ids, calculation_params, results, t1, t2) ==
    [result_hash |-> result_hash,
     votation_ids |-> SortedIds(votation_ids),
     votation_count |-> Len(votation_ids),
     calculation_params |-> calculation_params,
     results |-> results,
     created_at |-> t1,
     last_accessed |-> t2,
     access_count |-> 1]

\* results_collection.insert_one(doc): with the unique index a second document
\* with the same result_hash raises DuplicateKeyError, without it the document
\* is appended
InsertOne(coll, doc, unique) ==
    IF unique /\ HasEntry(coll, doc.result_hash)
    THEN [ok |-> FALSE, coll |-> coll]
    ELSE [ok |-> TRUE, coll |-> Append(coll, doc)]

\* {"last_accessed": {"$lt": cutoff_date}}
StaleLte(doc, cutoff) == doc.last_accessed <= cutoff

StaleByCreation(doc, cutoff) == doc.created_at < cutoff

Stale(doc, cutoff) == doc.last_accessed < cutoff

\* delete_many: the documents that stay
DeleteMany(coll, cutoff) == SelectSeq(coll, LAMBDA d : ~Stale(d, cutoff))

\* what an invocation holds before it has arguments or a return value
NoReq == [votation_ids |-> <<>>, result_hash |-> <<>>]
NoRet == [result_hash |-> <<>>, cached |-> FALSE, results |-> None]

\* the record of a step: the operation, the invocation that made it, its
\* arguments (days, hash) and what it returned (ok, n, doc)
Op(name) == [op |-> name, p |-> 0, days |-> 0, hash |-> <<>>,
             ok |-> FALSE, n |-> 0, doc |-> <<>>]

InitCache ==
    /\ collection = <<>>
    /\ uniqueIndex = FALSE
    /\ now = 0
    /\ pc = [p \in Procs |-> "idle"]
    /\ req = [p \in Procs |-> NoReq]
    /\ res = [p \in Procs |-> None]
    /\ stored = [p \in Procs |-> FALSE]
    /\ ret = [p \in Procs |-> NoRet]
    /\ lastOp = Op("init")
    /\ hIds = <<>> /\ hParams = <<>> /\ hIds2 = <<>> /\ hParams2 = <<>> /\ hOut = <<>>
    /\ fecha = None /\ script = None /\ period = None /\ excluded = 0
    /\ period_matrix = EmptyFrame /\ fscript = None
    /\ filtered_matrix = EmptyFrame /\ final_matrix = EmptyFrame
    /\ unanimous_count = 0 /\ refiltered = EmptyFrame
    /\ votes_df = EmptyFrame /\ vote_meta = <<>> /\ rscript = None /\ stage = "idle"
    /\ period_matrices = <<>> /\ all_legislators = <<>> /\ files = {}
    /\ period_vote_ids = <<>> /\ votaciones = {} /\ votos_diputados = <<>>
    /\ payload = <<>> /\ vote_matrix = EmptyFrame /\ built = None
    /\ idpt = <<>> /\ partido = <<>> /\ idpt_before = <<>> /\ returned = <<>> /\ raised = <<>>

\* the clock advances
Tick ==
    /\ now < MaxTime
    /\ now' = now + 1
    /\ lastOp' = Op("tick")
    /\ UNCHANGED <<collection, uniqueIndex, pc, req, res, stored, ret, hashVars, periodVars, matrixVars>>

\* main --create-indexes: create_index("result_hash", unique=True) raises when
\* the collection already holds two documents with one result_hash; the
\* exception is printed and swallowed
CreateIndexes ==
    LET dup == \E i, j \in 1..Len(collection) :
                   i # j /\ collection[i].result_hash = collection[j].result_hash
    IN  /\ uniqueIndex' = (uniqueIndex \/ ~dup)
        /\ lastOp' = Op("create_indexes")
        /\ UNCHANGED <<collection, now, pc, req, res, stored, ret, hashVars, periodVars, matrixVars>>

\* main --cleanup-days N (N = 0 is falsy and does not reach this branch)
Cleanup(days) ==
    LET cutoff_date == now - days
        kept == DeleteMany(collection, cutoff_date)
    IN  /\ collection' = kept
        /\ lastOp' = [Op("cleanup") EXCEPT !.days = days, !.n = Len(collection) - Len(kept)]
        /\ UNCHANGED <<uniqueIndex, now, pc, req, res, stored, ret, hashVars, periodVars, matrixVars>>

\* main --result-hash h: calculate_wnominate_with_provided_hash up to the
\* return of calculate_wnominate (no cache check is made)
Calculate(p, ids, h, r) ==
    /\ pc[p] = "idle"
    /\ pc' = [pc EXCEPT ![p] = "computed"]
    /\ req' = [req EXCEPT ![p] = [votation_ids |-> ids, result_hash |-> h]]
    /\ res' = [res EXCEPT ![p] = r]
    /\ lastOp' = [Op("calculate") EXCEPT !.p = p, !.ok = TRUE]
    /\ UNCHANGED <<collection, uniqueIndex, now, stored, ret, hashVars, periodVars, matrixVars>>

\* calculate_wnominate raises (generate_payload finds no data): main prints the
\* error and exits 1
CalculateFails(p) ==
    /\ pc[p] = "idle"
    /\ pc' = [pc EXCEPT ![p] = "error"]
    /\ lastOp' = [Op("calculate") EXCEPT !.p = p]
    /\ UNCHANGED <<collection, uniqueIndex, now, req, res, stored, ret, hashVars, periodVars, matrixVars>>

\* the rest of calculate_wnominate_with_provided_hash: store_wnominate_result,
\* the warning when it returns False, and the return
StoreAndReturn(p) ==
    /\ pc[p] = "computed"
    /\ \E t2 \in {now, IF now < MaxTime THEN now + 1 ELSE now} :
         LET doc == ResultDocument(req[p].result_hash, req[p].votation_ids,
                                   DefaultParams, res[p], now, t2)
             ins == InsertOne(collection, doc, uniqueIndex)
             out == [result_hash |-> req[p].result_hash,
                     cached |-> FALSE,
                     results |-> res[p]]
         IN  /\ collection' = ins.coll
             /\ now' = IF ins.ok THEN t2 ELSE now
             /\ stored' = [stored EXCEPT ![p] = ins.ok]
             /\ ret' = [ret EXCEPT ![p] = out]
             /\ lastOp' = [Op("store") EXCEPT !.p = p, !.ok = ins.ok]
    /\ pc' = [pc EXCEPT ![p] = "done"]
    /\ UNCHANGED <<uniqueIndex, req, res, hashVars, periodVars, matrixVars>>

\* main without --result-hash: calculate_wnominate_with_storage is not defined
\* in the module, the NameError is caught by main, which exits 1
MainLegacy(p) ==
    /\ pc[p] = "idle"
    /\ pc' = [pc EXCEPT ![p] = "error"]
    /\ lastOp' = [Op("legacy") EXCEPT !.p = p]
    /\ UNCHANGED <<collection, uniqueIndex, now, req, res, stored, ret, hashVars, periodVars, matrixVars>>

\* lookup(fingerprint) of the cache contract: the first matching document,
\* with its access metadata updated
TouchNoCount(doc, t) == [doc EXCEPT !.last_accessed = t]

Touch(doc, t) == [doc EXCEPT !.last_accessed = t, !.access_count = @ + 1]

Lookup(h) ==
    /\ IF HasEntry(collection, h)
       THEN LET i == FirstEntry(collection, h)
            IN  /\ collection[i].access_count < MaxAccess
                /\ collection' = [collection EXCEPT ![i] = Touch(@, now)]
                /\ lastOp' = [Op("lookup") EXCEPT !.hash = h, !.ok = TRUE, !.doc = <<collection'[i]>>]
       ELSE /\ collection' = collection
            /\ lastOp' = [Op("lookup") EXCEPT !.hash = h]
    /\ UNCHANGED <<uniqueIndex, now, pc, req, res, stored, ret, hashVars, periodVars, matrixVars>>

NextCache ==
    \/ Tick
    \/ CreateIndexes
    \/ \E days \in 1..MaxDays : Cleanup(days)
    \/ \E p \in Procs, ids \in IdLists, h \in Hashes, r \in Results : Calculate(p, ids, h, r)
    \/ \E p \in Procs : CalculateFails(p)
    \/ \E p \in Procs : StoreAndReturn(p)
    \/ \E p \in Procs : MainLegacy(p)
    \/ \E h \in Hashes : Lookup(h)

SpecCache == InitCache /\ [][NextCache]_vars

\* the cache under its maintenance operations: up to MaxWriters invocations
\* fill it, lookups and cleanups run as the clock advances
NextEvict ==
    \/ Tick
    \/ \E days \in 1..MaxDays : Cleanup(days)
    \/ \E p \in 1..MaxWriters, ids \in IdLists, h \in Hashes : Calculate(p, ids, h, "rA")
    \/ \E p \in 1..MaxWriters : StoreAndReturn(p)
    \/ \E h \in Hashes : Lookup(h)

SpecEvict == InitCache /\ [][NextEvict]_vars

(***************************************************************************)
(* Claims about the cache.                                                 *)
(***************************************************************************)
\* C1: in every reachable state the collection holds at most one entry for a
\* fingerprint, whatever the interleaving of the invocations that store one.
C1_AtMostOneEntryPerFingerprint ==
    \A i, j \in 1..Len(collection) :
        collection[i].result_hash = collection[j].result_hash => i = j

\* C2: a store for a fingerprint that already has an entry fails and leaves
\* the collection as it was: no overwrite, no second entry.
C2_StoreIsWriteOnce ==
    [][\A p \in Procs :
          (pc[p] = "computed" /\ pc'[p] = "done"
              /\ HasEntry(collection, req[p].result_hash))
          => (stored'[p] = FALSE /\ collection' = collection)]_vars

\* C3: a writer whose store fails because the fingerprint is already stored
\* returns the stored result, not its own.
C3_SecondWriterReturnsStored ==
    [][\A p \in Procs :
          (pc[p] = "computed" /\ pc'[p] = "done" /\ stored'[p] = FALSE)
          => /\ HasEntry(collection', ret'[p].result_hash)
             /\ ret'[p].results =
                    collection'[FirstEntry(collection', ret'[p].result_hash)].results]_vars

\* C4: a request whose fingerprint already has an entry never runs payload
\* generation and the estimator.
C4_CacheHitShortCircuits ==
    [][\A p \in Procs :
          (pc[p] = "idle" /\ pc'[p] = "computed")
          => ~HasEntry(collection, req'[p].result_hash)]_vars

\* C5: a lookup that hits returns the entry's stored ballot ids, parameters and
\* results, sets the entry's last_accessed to the time of the lookup and adds
\* one to its access_count, changing nothing else; a lookup that misses
\* changes no entry.
C5_LookupEffect ==
    [][lastOp'.op = "lookup" =>
          LET h == lastOp'.hash
              out == lastOp'
          IN  IF HasEntry(collection, h)
              THEN LET i == FirstEntry(collection, h)
                   IN  /\ out.ok /\ Len(out.doc) = 1
                       /\ out.doc[1].votation_ids = collection[i].votation_ids
                       /\ out.doc[1].calculation_params = collection[i].calculation_params
                       /\ out.doc[1].results = collection[i].results
                       /\ Len(collection') = Len(collection)
                       /\ \A j \in 1..Len(collection) : j # i => collection'[j] = collection[j]
                       /\ collection'[i] = [collection[i] EXCEPT
                                               !.last_accessed = now,
                                               !.access_count = collection[i].access_count + 1]
              ELSE ~out.ok /\ out.doc = <<>> /\ collection' = collection]_vars

\* a lookup has hit an entry that was stored before the clock advanced
C5_Witness ==
    /\ lastOp.op = "lookup"
    /\ lastOp.ok
    /\ lastOp.doc[1].access_count = 2
    /\ lastOp.doc[1].created_at < lastOp.doc[1].last_accessed

\* C6: cleanup_old_results(days) deletes exactly the entries whose
\* last_accessed is earlier than now - days, whatever their created_at, and
\* returns how many it deleted.
C6_CleanupEffect ==
    [][lastOp'.op = "cleanup" =>
          LET cutoff == now - lastOp'.days
          IN  /\ collection' = SelectSeq(collection, LAMBDA d : d.last_accessed >= cutoff)
              /\ lastOp'.n = Cardinality({i \in 1..Len(collection) :
                                               collection[i].last_accessed < cutoff})]_vars

\* a cleanup deleted an entry and kept one that was created before the cutoff
\* but accessed within the horizon
C6_Witness ==
    /\ lastOp.op = "cleanup"
    /\ lastOp.n >= 1
    /\ \E i \in 1..Len(collection) :
          /\ collection[i].created_at < now - lastOp.days
          /\ collection[i].last_accessed >= now - lastOp.days

(***************************************************************************)
(* generate_vote_hash, called on two inputs.                               *)
(***************************************************************************)
\* ballot ids (one and two digits), parameter keys and parameter values (an
\* int, the str with the same digits, another str)
IdValues == {2, 10}
ParamKeys == {<<"a">>, <<"b">>, <<"a", "b">>}
ParamValues == {PyInt(1), PyText(<<"1">>), PyText(<<"2">>)}

Range(s) == {s[i] : i \in 1..Len(s)}

Count(s, v) == Cardinality({i \in 1..Len(s) : s[i] = v})

\* the same elements with the same multiplicities
SameBag(s, t) == Len(s) = Len(t) /\ \A v \in Range(s) \cup Range(t) : Count(s, v) = Count(t, v)

\* the orders a caller can present the same collection in
Perms(s) == {t \in [1..Len(s) -> Range(s)] : SameBag(s, t)}

\* a dict, as the sequence of its items in insertion order: distinct keys
IsDict(items) == \A i, j \in 1..Len(items) : items[i][1] = items[j][1] => i = j

IdInputs == UNION {[1..n -> IdValues] : n \in 1..MaxIds}

ParamInputs ==
    {items \in UNION {[1..n -> ParamKeys \X ParamValues] : n \in 0..MaxParams} : IsDict(items)}

InitHash ==
    /\ hIds \in IdInputs
    /\ hParams \in ParamInputs
    /\ hIds2 = <<>> /\ hParams2 = <<>> /\ hOut = <<>>
    /\ collection = <<>> /\ uniqueIndex = FALSE /\ now = 0
    /\ pc = [p \in Procs |-> "idle"]
    /\ req = [p \in Procs |-> NoReq]
    /\ res = [p \in Procs |-> None]
    /\ stored = [p \in Procs |-> FALSE]
    /\ ret = [p \in Procs |-> NoRet]
    /\ lastOp = Op("init")
    /\ fecha = None /\ script = None /\ period = None /\ excluded = 0
    /\ period_matrix = EmptyFrame /\ fscript = None
    /\ filtered_matrix = EmptyFrame /\ final_matrix = EmptyFrame
    /\ unanimous_count = 0 /\ refiltered = EmptyFrame
    /\ votes_df = EmptyFrame /\ vote_meta = <<>> /\ rscript = None /\ stage = "idle"
    /\ period_matrices = <<>> /\ all_legislators = <<>> /\ files = {}
    /\ period_vote_ids = <<>> /\ votaciones = {} /\ votos_diputados = <<>>
    /\ payload = <<>> /\ vote_matrix = EmptyFrame /\ built = None
    /\ idpt = <<>> /\ partido = <<>> /\ idpt_before = <<>> /\ returned = <<>> /\ raised = <<>>

\* the two calls of generate_vote_hash
HashBoth(ids2, params2) ==
    /\ hOut = <<>>
    /\ hIds2' = ids2
    /\ hParams2' = params2
    /\ hOut' = <<generate_vote_hash(hIds, hParams), generate_vote_hash(ids2, params2)>>
    /\ UNCHANGED <<hIds, hParams, cacheVars, periodVars, matrixVars>>

\* the second caller presents the same ids and parameters in another order
HashReordered == \E ids2 \in Perms(hIds), params2 \in Perms(hParams) : HashBoth(ids2, params2)

\* the second caller presents one other ballot id
HashOtherId ==
    \E i \in 1..Len(hIds) :
        \E v \in IdValues \ {hIds[i]} :
            \E ids2 \in Perms([hIds EXCEPT ![i] = v]) : HashBoth(ids2, hParams)

\* the second caller presents one other value for a parameter
HashOtherValue ==
    \E i \in 1..Len(hParams) :
        \E v \in ParamValues \ {hParams[i][2]} :
            HashBoth(hIds, [hParams EXCEPT ![i] = <<hParams[i][1], v>>])

\* the second caller presents one parameter under another key
HashOtherKey ==
    \E i \in 1..Len(hParams), k \in ParamKeys \ {hParams[j][1] : j \in 1..Len(hParams)} :
        HashBoth(hIds, [hParams EXCEPT ![i] = <<k, hParams[i][2]>>])

NextHash == HashReordered \/ HashOtherId \/ HashOtherValue \/ HashOtherKey

SpecHash == InitHash /\ [][NextHash]_vars

\* C7: the fingerprint is the same for every order of the same ballot ids and
\* every insertion order of the same parameter items.
C7_OrderIndependent ==
    (hOut # <<>> /\ SameBag(hIds, hIds2) /\ Range(hParams) = Range(hParams2))
        => hOut[1] = hOut[2]

\* both the ids and the parameters were presented in another order
C7_Witness ==
    /\ hOut # <<>>
    /\ SameBag(hIds, hIds2) /\ hIds # hIds2
    /\ Range(hParams) = Range(hParams2) /\ hParams # hParams2
    /\ hOut[1] = hOut[2]

\* the inputs of the two calls differ in one ballot id, or in the key or the
\* value of one parameter
OneIdDiffers ==
    /\ Range(hParams) = Range(hParams2)
    /\ Len(hIds) = Len(hIds2)
    /\ ~SameBag(hIds, hIds2)
    /\ \E i \in 1..Len(hIds), j \in 1..Len(hIds2) :
          SameBag([n \in 1..(Len(hIds) - 1) |-> IF n < i THEN hIds[n] ELSE hIds[n + 1]],
                  [n \in 1..(Len(hIds2) - 1) |-> IF n < j THEN hIds2[n] ELSE hIds2[n + 1]])

OneParamDiffers ==
    /\ SameBag(hIds, hIds2)
    /\ Range(hParams) # Range(hParams2)
    /\ Cardinality(Range(hParams) \ Range(hParams2)) = 1
    /\ Cardinality(Range(hParams2) \ Range(hParams)) = 1
    /\ \E x \in Range(hParams) \ Range(hParams2), y \in Range(hParams2) \ Range(hParams) :
          x[1] = y[1] \/ x[2] = y[2]

\* C8: two inputs that differ in one ballot id or in one parameter key or
\* value give different canonical strings (the strings that are digested).
C8_OneChangeChangesInput ==
    (hOut # <<>> /\ (OneIdDiffers \/ OneParamDiffers)) => hOut[1][2] # hOut[2][2]

(***************************************************************************)
(* Period assignment: the 'fecha' of a vote_metadata.csv row is parsed and *)
(* compared with the periods of the exporter.                              *)
(***************************************************************************)
IsLeap(y) == (y % 4 = 0 /\ y % 100 # 0) \/ y % 400 = 0

DaysInMonth(y, m) ==
    IF m = 2 THEN (IF IsLeap(y) THEN 29 ELSE 28)
    ELSE IF m \in {4, 6, 9, 11} THEN 30 ELSE 31

RECURSIVE DaysBeforeMonth(_, _)
DaysBeforeMonth(y, m) ==
    IF m = 1 THEN 0 ELSE DaysBeforeMonth(y, m - 1) + DaysInMonth(y, m - 1)

\* date(y, m, d).toordinal()
ToOrdinal(y, m, d) ==
    (y - 1) * 365 + ((y - 1) \div 4) - ((y - 1) \div 100) + ((y - 1) \div 400)
        + DaysBeforeMonth(y, m) + d

Years == 2017..2022

ValidDate(y, m, d) == m \in 1..12 /\ d \in 1..DaysInMonth(y, m)

\* datetimes are counted from the first day of 2000
EpochOrdinal == ToOrdinal(2000, 1, 1)

\* a datetime is its number of seconds since the epoch
Datetime(y, m, d, h, mi, sec) ==
    (ToOrdinal(y, m, d) - EpochOrdinal) * 86400 + h * 3600 + mi * 60 + sec

\* dt.strftime('%Y-%m-%d'): the date of the datetime, the time of day dropped
Strftime(dt) ==
    LET ord == (dt \div 86400) + EpochOrdinal
        y == CHOOSE yy \in Years : ToOrdinal(yy, 1, 1) <= ord /\ ord < ToOrdinal(yy + 1, 1, 1)
        m == CHOOSE mm \in 1..12 :
                 /\ ToOrdinal(y, mm, 1) <= ord
                 /\ ord < ToOrdinal(y, mm, 1) + DaysInMonth(y, mm)
    IN  <<y, m, ord - ToOrdinal(y, m, 1) + 1>>

\* datetime.strptime(date, '%Y-%m-%d') of a period's date: midnight
Midnight(date) == Datetime(date[1], date[2], date[3], 0, 0, 0)

\* dt + timedelta(days=n)
PlusDays(dt, n) == dt + n * 86400

\* (a - b).days
DaysBetween(a, b) == (a - b) \div 86400

\* define_periods() of export_votes_for_dwnominate.py
define_periods ==
    << [id |-> "P1", start_date |-> <<2018, 1, 1>>, end_date |-> <<2018, 12, 31>>],
       [id |-> "P2", start_date |-> <<2019, 1, 1>>, end_date |-> <<2019, 12, 31>>],
       [id |-> "P3", start_date |-> <<2020, 1, 1>>, end_date |-> <<2020, 6, 30>>],
       [id |-> "P4", start_date |-> <<2020, 7, 1>>, end_date |-> <<2020, 12, 31>>],
       [id |-> "P5", start_date |-> <<2021, 1, 1>>, end_date |-> <<2021, 12, 31>>] >>

\* define_6_periods() of export_votes_for_dwnominate_6periods.py
define_6_periods ==
    LET p1_start == Datetime(2018, 3, 11, 0, 0, 0)
        p1_end == Datetime(2019, 10, 17, 0, 0, 0)
        p1_mid == PlusDays(p1_start, DaysBetween(p1_end, p1_start) \div 2)
        p2_start == Datetime(2019, 10, 18, 0, 0, 0)
        p2_end == Datetime(2020, 10, 24, 0, 0, 0)
        p2_mid == PlusDays(p2_start, DaysBetween(p2_end, p2_start) \div 2)
        p3_start == Datetime(2020, 10, 25, 0, 0, 0)
        p3_end == Datetime(2022, 3, 10, 0, 0, 0)
        p3_mid == PlusDays(p3_start, DaysBetween(p3_end, p3_start) \div 2)
    IN  << [id |-> "P1a", start_date |-> Strftime(p1_start), end_date |-> Strftime(p1_mid)],
           [id |-> "P1b", start_date |-> Strftime(PlusDays(p1_mid, 1)), end_date |-> Strftime(p1_end)],
           [id |-> "P2a", start_date |-> Strftime(p2_start), end_date |-> Strftime(p2_mid)],
           [id |-> "P2b", start_date |-> Strftime(PlusDays(p2_mid, 1)), end_date |-> Strftime(p2_end)],
           [id |-> "P3a", start_date |-> Strftime(p3_start), end_date |-> Strftime(p3_mid)],
           [id |-> "P3b", start_date |-> Strftime(PlusDays(p3_mid, 1)), end_date |-> Strftime(p3_end)] >>

\* PERIOD_DEFINITIONS of prepare_dwnominate_5periods.py ('start' and 'end')
PERIOD_DEFINITIONS ==
    << [id |-> "P1", start_date |-> <<2018, 3, 11>>, end_date |-> <<2018, 11, 1>>],
       [id |-> "P2", start_date |-> <<2018, 11, 1>>, end_date |-> <<2019, 6, 20>>],
       [id |-> "P3", start_date |-> <<2019, 6, 20>>, end_date |-> <<2020, 2, 10>>],
       [id |-> "P4", start_date |-> <<2020, 2, 10>>, end_date |-> <<2020, 10, 1>>],
       [id |-> "P5", start_date |-> <<2020, 10, 1>>, end_date |-> <<2022, 3, 10>>] >>

\* a 'fecha' field: [fmt, y, m, d, h, mi, s] with fmt one of
\*   "ymd"      YYYY-MM-DD
\*   "ymd_hms"  YYYY-MM-DD HH:MM:SS
\*   "dmy_slash" DD/MM/YYYY,  "dmy_dash" DD-MM-YYYY
\*   "nan"      the field is empty,  "bad" any other text
Fecha(fmt, y, m, d, h, mi, sec) == [fmt |-> fmt, y |-> y, m |-> m, d |-> d, h |-> h, mi |-> mi, s |-> sec]

TimesOfDay == {<<0, 0, 0>>, <<12, 30, 0>>, <<23, 59, 59>>}

FechaInputs ==
    {Fecha(fmt, y, m, d, 0, 0, 0) : fmt \in {"ymd", "dmy_slash", "dmy_dash"},
                                   y \in Years, m \in 1..12, d \in 1..31}
    \cup {Fecha("ymd_hms", y, m, d, t[1], t[2], t[3]) : y \in Years, m \in 1..12, d \in 1..31,
                                                      t \in TimesOfDay}
    \cup {Fecha("nan", 0, 0, 0, 0, 0, 0), Fecha("bad", 0, 0, 0, 0, 0, 0)}

\* the result of a parse that raised, or returned None
NoDate == -1

\* the exporters' parse: '%Y-%m-%d %H:%M:%S' when the text has a space,
\* '%Y-%m-%d' otherwise; a ValueError is caught and the row skipped
ParseExport(f) ==
    IF f.fmt \in {"ymd", "ymd_hms"} /\ ValidDate(f.y, f.m, f.d)
    THEN Datetime(f.y, f.m, f.d, f.h, f.mi, f.s)
    ELSE NoDate

\* parse_date of prepare_dwnominate_5periods.py: the first format that fits
parse_date(f) ==
    IF f.fmt \in {"ymd", "ymd_hms", "dmy_slash", "dmy_dash"} /\ ValidDate(f.y, f.m, f.d)
    THEN Datetime(f.y, f.m, f.d, f.h, f.mi, f.s)
    ELSE NoDate

\* period_start <= fecha <= period_end
InPeriodClosed(p, dt) == Midnight(p.start_date) <= dt /\ dt <= Midnight(p.end_date)

\* a test that also takes the instant a period ends
InPeriodEndInclusive(p, dt) == Midnight(p.start_date) <= dt /\ dt <= Midnight(p.end_date)

\* period_start <= vote_date < period_end
InPeriodHalfOpen(p, dt) == Midnight(p.start_date) <= dt /\ dt < Midnight(p.end_date)

\* the membership test each script applies
InPeriod(s, p, dt) ==
    IF s = "prepare_5periods" THEN InPeriodHalfOpen(p, dt) ELSE InPeriodClosed(p, dt)

PeriodsOf(s) ==
    CASE s = "export_5periods" -> define_periods
      [] s = "export_6periods" -> define_6_periods
      [] s = "prepare_5periods" -> PERIOD_DEFINITIONS

ParseOf(s, f) == IF s = "prepare_5periods" THEN parse_date(f) ELSE ParseExport(f)

\* for period in periods: if <test>: <assign>; break
RECURSIVE FirstPeriod(_, _, _, _)
FirstPeriod(s, periods, dt, none) ==
    IF periods = <<>> THEN none
    ELSE IF InPeriod(s, Head(periods), dt) THEN Head(periods).id
    ELSE FirstPeriod(s, Tail(periods), dt, none)

\* the loop body of the exporters: vote_period_map.get(vote_id, None)
AssignExport(s, f) ==
    IF f.fmt = "nan" \/ ParseExport(f) = NoDate THEN None
    ELSE FirstPeriod(s, PeriodsOf(s), ParseExport(f), None)

\* classify_vote_by_period(parse_date(fecha))
classify_vote_by_period(f) ==
    IF parse_date(f) = NoDate THEN "UNKNOWN"
    ELSE FirstPeriod("prepare_5periods", PERIOD_DEFINITIONS, parse_date(f), "UNKNOWN")

Scripts == {"export_5periods", "export_6periods", "prepare_5periods"}

InitPeriods ==
    /\ fecha \in FechaInputs
    /\ script = None /\ period = None /\ excluded = 0
    /\ period_matrix = EmptyFrame /\ fscript = None
    /\ filtered_matrix = EmptyFrame /\ final_matrix = EmptyFrame
    /\ unanimous_count = 0 /\ refiltered = EmptyFrame
    /\ votes_df = EmptyFrame /\ vote_meta = <<>> /\ rscript = None /\ stage = "idle"
    /\ period_matrices = <<>> /\ all_legislators = <<>> /\ files = {}
    /\ period_vote_ids = <<>> /\ votaciones = {} /\ votos_diputados = <<>>
    /\ payload = <<>> /\ vote_matrix = EmptyFrame /\ built = None
    /\ idpt = <<>> /\ partido = <<>> /\ idpt_before = <<>> /\ returned = <<>> /\ raised = <<>>
    /\ collection = <<>> /\ uniqueIndex = FALSE /\ now = 0
    /\ pc = [p \in Procs |-> "idle"]
    /\ req = [p \in Procs |-> NoReq]
    /\ res = [p \in Procs |-> None]
    /\ stored = [p \in Procs |-> FALSE]
    /\ ret = [p \in Procs |-> NoRet]
    /\ lastOp = Op("init")
    /\ hIds = <<>> /\ hParams = <<>> /\ hIds2 = <<>> /\ hParams2 = <<>> /\ hOut = <<>>

\* len(vote_meta) - len(votes_with_period), for the one row: the rows whose
\* 'period' is None
NotAssigned(p) == IF p = None THEN 1 ELSE 0

\* period_stats['UNKNOWN'], for the one row
UnknownCount(p) == IF p = "UNKNOWN" THEN 1 ELSE 0

\* pd.to_datetime(vote_metadata['fecha']) of export_votes_for_wnominate_3periods.py:
\* an empty field becomes NaT, a text that is no date raises
NaT == -2

to_datetime(f) ==
    IF f.fmt = "nan" THEN NaT
    ELSE IF f.fmt \in {"ymd", "ymd_hms"} /\ ValidDate(f.y, f.m, f.d)
         THEN Datetime(f.y, f.m, f.d, f.h, f.mi, f.s)
         ELSE NoDate

fecha_estallido == Datetime(2019, 10, 18, 0, 0, 0)
fecha_plebiscito == Datetime(2020, 10, 25, 0, 0, 0)

\* periodo = 'P3' by default, 'P1' and 'P2' where the comparison with the
\* row's date holds (a comparison with NaT is False)
Periodo(dt) ==
    IF dt # NaT /\ dt < fecha_estallido THEN "P1"
    ELSE IF dt # NaT /\ dt >= fecha_estallido /\ dt < fecha_plebiscito THEN "P2"
    ELSE "P3"

\* the run stopped with an uncaught exception
Aborted == "ABORTED"

\* export_votes_for_dwnominate_from_csv assigns the row
Export5 ==
    /\ script = None
    /\ script' = "export_5periods"
    /\ period' = AssignExport("export_5periods", fecha)
    /\ excluded' = NotAssigned(period')
    /\ UNCHANGED <<fecha, cacheVars, hashVars, matrixVars>>

\* export_votes_for_dwnominate_6periods assigns the row
Export6 ==
    /\ script = None
    /\ script' = "export_6periods"
    /\ period' = AssignExport("export_6periods", fecha)
    /\ excluded' = NotAssigned(period')
    /\ UNCHANGED <<fecha, cacheVars, hashVars, matrixVars>>

\* analyze_period_distribution of prepare_dwnominate_5periods.py classifies it
Prepare5 ==
    /\ script = None
    /\ script' = "prepare_5periods"
    /\ period' = classify_vote_by_period(fecha)
    /\ excluded' = UnknownCount(period')
    /\ UNCHANGED <<fecha, cacheVars, hashVars, matrixVars>>

\* export_votes_for_wnominate_3periods.py classifies the row; the script reads
\* ISO dates, empty fields and other text
Split3 ==
    /\ script = None
    /\ fecha.fmt \in {"ymd", "ymd_hms", "nan", "bad"}
    /\ script' = "split_3periods"
    /\ period' = IF to_datetime(fecha) = NoDate THEN Aborted ELSE Periodo(to_datetime(fecha))
    /\ excluded' = 0
    /\ UNCHANGED <<fecha, cacheVars, hashVars, matrixVars>>

NextPeriods == Export5 \/ Export6 \/ Prepare5 \/ Split3

SpecPeriods == InitPeriods /\ [][NextPeriods]_vars

\* the periods of script s whose membership test holds for the row
Matching(s, f) ==
    {i \in 1..Len(PeriodsOf(s)) : InPeriod(s, PeriodsOf(s)[i], ParseOf(s, f))}

\* C9: in each period set the membership tests are pairwise disjoint: for a
\* timestamp at most one period's test is true.
C9_PeriodsDisjoint ==
    \A s \in Scripts : ParseOf(s, fecha) # NoDate => Cardinality(Matching(s, fecha)) <= 1

\* a row dated on the day that ends one period and starts the next was
\* assigned to the later one
C9_Witness ==
    /\ script = "prepare_5periods"
    /\ fecha = Fecha("ymd", 2018, 11, 1, 0, 0, 0)
    /\ period = "P2"

\* the periods of script s whose start_date..end_date range holds the row's date
InDateRange(s, f) ==
    {i \in 1..Len(PeriodsOf(s)) :
        /\ ToOrdinal(PeriodsOf(s)[i].start_date[1], PeriodsOf(s)[i].start_date[2],
                     PeriodsOf(s)[i].start_date[3]) <= ToOrdinal(f.y, f.m, f.d)
        /\ ToOrdinal(f.y, f.m, f.d) <= ToOrdinal(PeriodsOf(s)[i].end_date[1],
                     PeriodsOf(s)[i].end_date[2], PeriodsOf(s)[i].end_date[3])}

\* C10: a row with a parsable timestamp (date only, or date and time of day)
\* whose date lies in the start..end range of a period is assigned to such a
\* period, never left out.
C10_InRangeIsAssigned ==
    (/\ script \in Scripts
     /\ fecha.fmt \in {"ymd", "ymd_hms"}
     /\ ValidDate(fecha.y, fecha.m, fecha.d)
     /\ InDateRange(script, fecha) # {})
        => \E i \in InDateRange(script, fecha) : period = PeriodsOf(script)[i].id

\* the timestamp of the row is missing, or the script cannot parse it
NoTimestamp ==
    CASE script = "prepare_5periods" -> parse_date(fecha) = NoDate
      [] script = "split_3periods" -> to_datetime(fecha) \in {NoDate, NaT}
      [] OTHER -> fecha.fmt = "nan" \/ ParseExport(fecha) = NoDate

PeriodIds == {"P1", "P2", "P3", "P4", "P5", "P1a", "P1b", "P2a", "P2b", "P3a", "P3b"}

\* C11: a row whose timestamp is missing or unparsable gets no period (so it
\* is in no period matrix), is counted in the reported number of excluded
\* rows, and does not abort the run.
C11_NoTimestampIsExcludedAndCounted ==
    (script # None /\ NoTimestamp)
        => (period \notin PeriodIds /\ period # Aborted /\ excluded = 1)

(***************************************************************************)
(* The quality filter of a period: participation cuts and unanimity cut.   *)
(***************************************************************************)
\* the ballots of a period (vote ids, in chronological order)
MaxVotes == 2

\* the thresholds; the scripts use 10 (5 in the 6-period exporter, 20 in the
\* 3-period script) and 10, here scaled to the matrices of the model
MinVotes5 == 2
MinVotes6 == 1
MinVotes3 == 2
MinLegislators == 2

Legislators == <<"A", "B", "C">>

\* 1 = Yea, 0 = Nay, 9 = not in legislature
Casts == {0, 1, 9}

\* a DataFrame with this index, these columns and the cells of cell
Frame(index, columns, cell) ==
    [index |-> index,
     columns |-> columns,
     cell |-> [x \in Range(index) \X Range(columns) |-> cell[x]]]

\* (df != 9).sum(axis=1)[l]
RowCount(df, l) == Cardinality({j \in 1..Len(df.columns) : df.cell[<<l, df.columns[j]>>] # 9})

\* (df != 9).sum(axis=0)[v]
ColCount(df, v) == Cardinality({i \in 1..Len(df.index) : df.cell[<<df.index[i], v>>] # 9})

\* a cut that also drops the legislators exactly at the threshold
LegislatorsAboveThreshold(df, min_votes) == SelectSeq(df.index, LAMBDA l : RowCount(df, l) > min_votes)

\* legislator_vote_counts >= min_votes_per_legislator
ActiveLegislators(df, min_votes) == SelectSeq(df.index, LAMBDA l : RowCount(df, l) >= min_votes)

\* vote_participation >= min_legislators_per_vote
ActiveVotes(df, min_legislators) == SelectSeq(df.columns, LAMBDA v : ColCount(df, v) >= min_legislators)

\* both cuts one after the other, the ballot cut on the rows the legislator
\* cut kept
CutsInSequence(df, min_votes, min_legislators) ==
    LET rows == Frame(ActiveLegislators(df, min_votes), df.columns, df.cell)
    IN  Frame(rows.index, ActiveVotes(rows, min_legislators), df.cell)

\* the exporters: both masks are computed on period_matrix, then
\* period_matrix.loc[active_legislators, active_votes]
CutsOnPeriodMatrix(df, min_votes, min_legislators) ==
    Frame(ActiveLegislators(df, min_votes), ActiveVotes(df, min_legislators), df.cell)

\* the 3-period script: votes_periodo[legisladores_activos]
LegislatorCut(df, min_votes) == Frame(ActiveLegislators(df, min_votes), df.columns, df.cell)

\* valid_votes = vote_data[vote_data != 9], and the counts of 1 and of 0 in it
ValidVotes(df, v) == {i \in 1..Len(df.index) : df.cell[<<df.index[i], v>>] # 9}
Yeas(df, v) == Cardinality({i \in ValidVotes(df, v) : df.cell[<<df.index[i], v>>] = 1})
Nays(df, v) == Cardinality({i \in ValidVotes(df, v) : df.cell[<<df.index[i], v>>] = 0})

\* a test that keeps a ballot with Yeas only
HasYea(df, v) == Yeas(df, v) > 0

\* yeas > 0 and nays > 0
HasVariation(df, v) == Yeas(df, v) > 0 /\ Nays(df, v) > 0

\* non_unanimous_votes
NonUnanimousVotes(df) ==
    SelectSeq(df.columns, LAMBDA v : ValidVotes(df, v) # {} /\ HasVariation(df, v))

\* unanimous_count: the ballots with valid votes and no variation
UnanimousCount(df) ==
    Cardinality({j \in 1..Len(df.columns) :
                    ValidVotes(df, df.columns[j]) # {} /\ ~HasVariation(df, df.columns[j])})

\* filtered_matrix[non_unanimous_votes]
UnanimityCut(df) == Frame(df.index, NonUnanimousVotes(df), df.cell)

FilterScripts == {"export_5periods", "export_6periods", "prepare_5periods", "split_3periods"}

\* min_votes_per_legislator of each script
min_votes_per_legislator(s) ==
    CASE s = "export_5periods" -> MinVotes5
      [] s = "export_6periods" -> MinVotes6
      [] s = "prepare_5periods" -> MinVotes5
      [] s = "split_3periods" -> MinVotes3

\* the participation cuts of each script
ParticipationCuts(s, df) ==
    CASE s = "export_5periods" -> CutsOnPeriodMatrix(df, min_votes_per_legislator(s), MinLegislators)
      [] s = "export_6periods" -> CutsOnPeriodMatrix(df, min_votes_per_legislator(s), MinLegislators)
      [] s = "prepare_5periods" -> CutsInSequence(df, min_votes_per_legislator(s), MinLegislators)
      [] s = "split_3periods" -> LegislatorCut(df, min_votes_per_legislator(s))

\* the matrix each script keeps for the period
QualityFilter(s, df) ==
    IF s = "export_5periods" THEN UnanimityCut(ParticipationCuts(s, df))
    ELSE ParticipationCuts(s, df)

\* the period matrices: every legislator x every ballot of the period
PeriodMatrixInputs ==
    {[index |-> Legislators,
      columns |-> [j \in 1..MaxVotes |-> j],
      cell |-> c] : c \in [Range(Legislators) \X (1..MaxVotes) -> Casts]}

InitFilter ==
    /\ period_matrix \in PeriodMatrixInputs
    /\ fscript = None
    /\ filtered_matrix = EmptyFrame /\ final_matrix = EmptyFrame
    /\ unanimous_count = 0 /\ refiltered = EmptyFrame
    /\ votes_df = EmptyFrame /\ vote_meta = <<>> /\ rscript = None /\ stage = "idle"
    /\ period_matrices = <<>> /\ all_legislators = <<>> /\ files = {}
    /\ period_vote_ids = <<>> /\ votaciones = {} /\ votos_diputados = <<>>
    /\ payload = <<>> /\ vote_matrix = EmptyFrame /\ built = None
    /\ idpt = <<>> /\ partido = <<>> /\ idpt_before = <<>> /\ returned = <<>> /\ raised = <<>>
    /\ collection = <<>> /\ uniqueIndex = FALSE /\ now = 0
    /\ pc = [p \in Procs |-> "idle"]
    /\ req = [p \in Procs |-> NoReq]
    /\ res = [p \in Procs |-> None]
    /\ stored = [p \in Procs |-> FALSE]
    /\ ret = [p \in Procs |-> NoRet]
    /\ lastOp = Op("init")
    /\ hIds = <<>> /\ hParams = <<>> /\ hIds2 = <<>> /\ hParams2 = <<>> /\ hOut = <<>>
    /\ fecha = None /\ script = None /\ period = None /\ excluded = 0

\* export_votes_for_dwnominate_from_csv, the filters of one period
FilterExport5 ==
    /\ fscript = None
    /\ fscript' = "export_5periods"
    /\ filtered_matrix' = ParticipationCuts("export_5periods", period_matrix)
    /\ unanimous_count' = UnanimousCount(filtered_matrix')
    /\ final_matrix' = UnanimityCut(filtered_matrix')
    /\ UNCHANGED <<period_matrix, refiltered, runVars, cacheVars, hashVars, periodVars,
                   buildVars, polarityVars>>

\* export_votes_for_dwnominate_6periods, the filters of one period
FilterExport6 ==
    /\ fscript = None
    /\ fscript' = "export_6periods"
    /\ filtered_matrix' = ParticipationCuts("export_6periods", period_matrix)
    /\ final_matrix' = filtered_matrix'
    /\ UNCHANGED <<period_matrix, unanimous_count, refiltered, runVars, cacheVars, hashVars, periodVars,
                   buildVars, polarityVars>>

\* create_period_matrices of prepare_dwnominate_5periods.py, one period
FilterPrepare5 ==
    /\ fscript = None
    /\ fscript' = "prepare_5periods"
    /\ filtered_matrix' = ParticipationCuts("prepare_5periods", period_matrix)
    /\ final_matrix' = filtered_matrix'
    /\ UNCHANGED <<period_matrix, unanimous_count, refiltered, runVars, cacheVars, hashVars, periodVars,
                   buildVars, polarityVars>>

\* export_votes_for_wnominate_3periods.py, one period
FilterSplit3 ==
    /\ fscript = None
    /\ fscript' = "split_3periods"
    /\ filtered_matrix' = ParticipationCuts("split_3periods", period_matrix)
    /\ final_matrix' = filtered_matrix'
    /\ UNCHANGED <<period_matrix, unanimous_count, refiltered, runVars, cacheVars, hashVars, periodVars,
                   buildVars, polarityVars>>

\* the name of a script whose filter ran a second time
Again(s) == s \o "+again"

\* the script's filter runs on the matrix it produced
Refilter ==
    /\ fscript \in FilterScripts
    /\ fscript' = Again(fscript)
    /\ refiltered' = QualityFilter(fscript, final_matrix)
    /\ UNCHANGED <<period_matrix, filtered_matrix, final_matrix, unanimous_count,
                   runVars, cacheVars, hashVars, periodVars,
                   buildVars, polarityVars>>

NextFilter == FilterExport5 \/ FilterExport6 \/ FilterPrepare5 \/ FilterSplit3 \/ Refilter

SpecFilter == InitFilter /\ [][NextFilter]_vars

\* the scripts that cut ballots by participation
BallotCutScripts == {"export_5periods", "export_6periods", "prepare_5periods"}

\* C12: every ballot the participation cuts keep has at least
\* min_legislators_per_vote non-9 casts among the legislators the legislator
\* cut kept: the ballot cut is computed on the result of the legislator cut.
C12_BallotCutAfterLegislatorCut ==
    fscript \in BallotCutScripts =>
        \A j \in 1..Len(filtered_matrix.columns) :
            Cardinality({i \in 1..Len(filtered_matrix.index) :
                            period_matrix.cell[<<filtered_matrix.index[i],
                                                 filtered_matrix.columns[j]>>] # 9})
                >= MinLegislators

\* the non-9 casts of a legislator over the ballots of period_matrix
CastsOf(l) == Cardinality({v \in 1..MaxVotes : period_matrix.cell[<<l, v>>] # 9})

\* C13: the legislator cut keeps a legislator exactly when its non-9 casts over
\* the period's ballots, before any ballot is removed, reach
\* min_votes_per_legislator.
C13_LegislatorCut ==
    fscript \in FilterScripts =>
        \A l \in Range(Legislators) :
            /\ (l \in Range(filtered_matrix.index)) <=> (CastsOf(l) >= min_votes_per_legislator(fscript))
            /\ (l \in Range(final_matrix.index)) <=> (CastsOf(l) >= min_votes_per_legislator(fscript))

\* one legislator is exactly at the threshold and kept, another is one cast
\* short of it and absent
C13_Witness ==
    /\ fscript = "export_5periods"
    /\ \E l \in Range(final_matrix.index) : CastsOf(l) = MinVotes5
    /\ \E l \in Range(Legislators) \ Range(final_matrix.index) : CastsOf(l) = MinVotes5 - 1

\* C14: the quality filter applied to its own output returns it unchanged.
C14_FilterIdempotent ==
    fscript \in {Again(s) : s \in FilterScripts} => refiltered = final_matrix

\* the casts that are not 9 in a column of a matrix
ValidCasts(df, v) == {df.cell[<<df.index[i], v>>] : i \in 1..Len(df.index)} \ {9}

C16_UnanimousCountAccounts ==
    fscript = "export_5periods" =>
        Len(filtered_matrix.columns) = Len(final_matrix.columns) + unanimous_count

(***************************************************************************)
(* A run of a DW-NOMINATE exporter: period matrices, the common legislator *)
(* set, the matrix files.                                                  *)
(***************************************************************************)
\* the ballots of the run: two groups of MaxVotes ballots, by date
Ballots == [j \in 1..(2 * MaxVotes) |-> j]

\* dates of the two groups, and a date outside every period
FirstGroupDate == Fecha("ymd", 2018, 6, 1, 0, 0, 0)
SecondGroupDate == Fecha("ymd", 2019, 11, 1, 0, 0, 0)
OutsideDate == Fecha("ymd", 2017, 1, 1, 0, 0, 0)

VoteMetaInputs ==
    {[b \in 1..(2 * MaxVotes) |-> IF b <= MaxVotes THEN d[1] ELSE d[2]] :
        d \in {<<FirstGroupDate, SecondGroupDate>>,
               <<FirstGroupDate, OutsideDate>>,
               <<OutsideDate, OutsideDate>>}}

\* what a legislator does over the ballots of a group: not in the legislature,
\* Yea and Nay in turn, Yea throughout, or one cast only
Absent == [j \in 1..MaxVotes |-> 9]
InTurn == [j \in 1..MaxVotes |-> IF j % 2 = 1 THEN 1 ELSE 0]
AllYea == [j \in 1..MaxVotes |-> 1]
OneCast == [j \in 1..MaxVotes |-> IF j = 1 THEN 1 ELSE 9]
RowPatterns == {Absent, InTurn, AllYea, OneCast}

\* votes_matrix.csv holds every ballot of the metadata, or lacks the second group
VotesInputs ==
    {[index |-> Legislators,
      columns |-> cols,
      cell |-> [x \in Range(Legislators) \X (1..(2 * MaxVotes)) |->
                   IF x[2] <= MaxVotes THEN pat[<<x[1], 1>>][x[2]]
                   ELSE pat[<<x[1], 2>>][x[2] - MaxVotes]]] :
        pat \in [Range(Legislators) \X {1, 2} -> RowPatterns],
        cols \in {Ballots, SubSeq(Ballots, 1, MaxVotes)}}

\* period_votes: the ballots of vote_meta whose 'period' is this period
PeriodVotes(s, meta, pid) ==
    SelectSeq(Ballots, LAMBDA b : AssignExport(s, meta[b]) = pid)

\* a dict with a matrix for every period, with or without ballots
RECURSIVE BuildEveryPeriod(_, _, _, _)
BuildEveryPeriod(s, df, meta, periods) ==
    IF periods = <<>> THEN <<>>
    ELSE LET ids == SelectSeq(PeriodVotes(s, meta, Head(periods).id),
                              LAMBDA b : b \in Range(df.columns))
         IN  <<[id |-> Head(periods).id,
                matrix |-> QualityFilter(s, Frame(df.index, ids, df.cell))]>>
                 \o BuildEveryPeriod(s, df, meta, Tail(periods))

\* step 5: the dict period_matrices; a period without ballots in the metadata,
\* or with none of them among the columns of votes_df, is skipped
RECURSIVE BuildPeriodMatrices(_, _, _, _)
BuildPeriodMatrices(s, df, meta, periods) ==
    IF periods = <<>> THEN <<>>
    ELSE LET pid == Head(periods).id
             ids == SelectSeq(PeriodVotes(s, meta, pid), LAMBDA b : b \in Range(df.columns))
             rest == BuildPeriodMatrices(s, df, meta, Tail(periods))
         IN  IF ids = <<>> THEN rest
             ELSE <<[id |-> pid,
                     matrix |-> QualityFilter(s, Frame(df.index, ids, df.cell))]>> \o rest

\* sorted(list(all_legislators)): the union of the indexes, in sorted order
UnionOfIndexes(pms) ==
    SelectSeq(Legislators, LAMBDA l : \E i \in 1..Len(pms) : l \in Range(pms[i].matrix.index))

\* matrix.reindex(index=all_legislators, fill_value=9)
Reindex(df, index) ==
    [index |-> index,
     columns |-> df.columns,
     cell |-> [x \in Range(index) \X Range(df.columns) |->
                  IF x[1] \in Range(df.index) THEN df.cell[x] ELSE 9]]

\* the legislators that stay when only one period is looked at
RemoveForFirstPeriod(pms, legislators) ==
    {l \in Range(legislators) : Len(pms) > 0 /\ RowCount(pms[1].matrix, l) < 1}

\* legislators_to_remove: fewer than min_required_votes (1) valid votes in a period
LegislatorsToRemove(pms, legislators) ==
    {l \in Range(legislators) : \E i \in 1..Len(pms) : RowCount(pms[i].matrix, l) < 1}

\* period_matrices[period_id].loc[legislators_to_keep]
LocRows(df, keep) ==
    Frame(SelectSeq(keep, LAMBDA l : l \in Range(df.index)), df.columns, df.cell)

\* every matrix cut on its own to its legislators with a valid vote
EnsureEachPeriod(pms) ==
    [legislators |-> UnionOfIndexes(pms),
     matrices |-> [i \in 1..Len(pms) |->
                      [id |-> pms[i].id,
                       matrix |-> LocRows(pms[i].matrix,
                                          SelectSeq(pms[i].matrix.index,
                                                    LAMBDA l : RowCount(pms[i].matrix, l) >= 1))]]]

\* step 6: the matrices reindexed to the union, then cut to the legislators
\* with a valid vote in every period
EnsureConsistent(pms) ==
    LET union == UnionOfIndexes(pms)
        reindexed == [i \in 1..Len(pms) |->
                         [id |-> pms[i].id, matrix |-> Reindex(pms[i].matrix, union)]]
        remove == LegislatorsToRemove(reindexed, union)
        keep == SelectSeq(union, LAMBDA l : l \notin remove)
    IN  IF remove # {}
        THEN [legislators |-> keep,
              matrices |-> [i \in 1..Len(pms) |->
                               [id |-> pms[i].id, matrix |-> LocRows(reindexed[i].matrix, keep)]]]
        ELSE [legislators |-> union, matrices |-> reindexed]

RunScripts == {"export_5periods", "export_6periods"}

InitRun ==
    /\ votes_df \in VotesInputs
    /\ vote_meta \in VoteMetaInputs
    /\ (votes_df.columns # Ballots => vote_meta[2 * MaxVotes] = SecondGroupDate)
    /\ rscript \in RunScripts
    /\ stage = "start"
    /\ period_matrices = <<>> /\ all_legislators = <<>> /\ files = {}
    /\ period_vote_ids = <<>> /\ votaciones = {} /\ votos_diputados = <<>>
    /\ payload = <<>> /\ vote_matrix = EmptyFrame /\ built = None
    /\ idpt = <<>> /\ partido = <<>> /\ idpt_before = <<>> /\ returned = <<>> /\ raised = <<>>
    /\ period_matrix = EmptyFrame /\ fscript = None
    /\ filtered_matrix = EmptyFrame /\ final_matrix = EmptyFrame
    /\ unanimous_count = 0 /\ refiltered = EmptyFrame
    /\ collection = <<>> /\ uniqueIndex = FALSE /\ now = 0
    /\ pc = [p \in Procs |-> "idle"]
    /\ req = [p \in Procs |-> NoReq]
    /\ res = [p \in Procs |-> None]
    /\ stored = [p \in Procs |-> FALSE]
    /\ ret = [p \in Procs |-> NoRet]
    /\ lastOp = Op("init")
    /\ hIds = <<>> /\ hParams = <<>> /\ hIds2 = <<>> /\ hParams2 = <<>> /\ hOut = <<>>
    /\ fecha = None /\ script = None /\ period = None /\ excluded = 0

\* steps 4 and 5: the ballots are assigned, the period matrices built and
\* filtered
CreatePeriodMatrices ==
    /\ stage = "start"
    /\ period_matrices' = BuildPeriodMatrices(rscript, votes_df, vote_meta, PeriodsOf(rscript))
    /\ stage' = IF period_matrices' = <<>> THEN "built_none" ELSE "built"
    /\ UNCHANGED <<votes_df, vote_meta, rscript, all_legislators, files,
                   filterVars, cacheVars, hashVars, periodVars,
                   buildVars, polarityVars>>

\* if not period_matrices: raise ValueError
NoPeriods ==
    /\ stage = "built_none"
    /\ stage' = "error"
    /\ UNCHANGED <<votes_df, vote_meta, rscript, period_matrices, all_legislators, files,
                   filterVars, cacheVars, hashVars, periodVars,
                   buildVars, polarityVars>>

\* step 6: the consistent legislator set
Consistent ==
    /\ stage = "built"
    /\ LET out == EnsureConsistent(period_matrices)
       IN  /\ period_matrices' = out.matrices
           /\ all_legislators' = out.legislators
    /\ stage' = "consistent"
    /\ UNCHANGED <<votes_df, vote_meta, rscript, files,
                   filterVars, cacheVars, hashVars, periodVars,
                   buildVars, polarityVars>>

\* step 7: matrix.to_csv for every period
ExportMatrices ==
    /\ stage = "consistent"
    /\ files' = {period_matrices[i] : i \in 1..Len(period_matrices)}
    /\ stage' = "exported"
    /\ UNCHANGED <<votes_df, vote_meta, rscript, period_matrices, all_legislators,
                   filterVars, cacheVars, hashVars, periodVars,
                   buildVars, polarityVars>>

NextRun == CreatePeriodMatrices \/ NoPeriods \/ Consistent \/ ExportMatrices

SpecRun == InitRun /\ [][NextRun]_vars

\* C17: after the consistency step all period matrices have the same legislator
\* rows, in the same order.
C17_SameLegislatorRows ==
    stage \in {"consistent", "exported"} =>
        \A i, j \in 1..Len(period_matrices) :
            period_matrices[i].matrix.index = period_matrices[j].matrix.index

\* two period matrices whose filtered row sets differed now share two rows
C17_Witness ==
    /\ stage = "consistent"
    /\ Len(period_matrices) = 2
    /\ period_matrices[1].matrix.index = <<"B", "C">>
    /\ \A b \in 1..MaxVotes : votes_df.cell[<<"A", b>>] # 9
    /\ \A b \in (MaxVotes + 1)..(2 * MaxVotes) : votes_df.cell[<<"A", b>>] = 9

\* the non-9 casts of a legislator in a matrix, 0 when it has no row there
ValidVotesIn(df, l) ==
    IF l \in Range(df.index)
    THEN Cardinality({v \in Range(df.columns) : df.cell[<<l, v>>] # 9})
    ELSE 0

\* C18: a legislator is in the output of the consistency step exactly when it
\* is a row of every period's filtered matrix with at least one non-9 cast in
\* each; the others are in no period's output.
C18_CommonLegislators ==
    [][(stage = "built" /\ stage' = "consistent") =>
          \A l \in Range(Legislators) :
              LET everywhere == \A i \in 1..Len(period_matrices) :
                                    ValidVotesIn(period_matrices[i].matrix, l) >= 1
              IN  /\ (l \in Range(all_legislators')) <=> everywhere
                  /\ \A i \in 1..Len(period_matrices') :
                        (l \in Range(period_matrices'[i].matrix.index)) <=> everywhere]_vars

\* B and C are the output; A, with casts on every ballot of the first group,
\* and none on the second, is in neither matrix
C18_Witness ==
    /\ stage = "exported"
    /\ all_legislators = <<"B", "C">>
    /\ Len(period_matrices) = 2
    /\ \A b \in 1..MaxVotes : votes_df.cell[<<"A", b>>] # 9
    /\ \A b \in (MaxVotes + 1)..(2 * MaxVotes) : votes_df.cell[<<"A", b>>] = 9
    /\ \A i \in 1..2 : "A" \notin Range(period_matrices[i].matrix.index)

\* C19: with an empty common legislator set the run stops with an error and
\* writes no matrix file.
C19_EmptyCommonSetAborts ==
    (stage \in {"consistent", "exported"} /\ all_legislators = <<>>)
        => (stage # "exported" /\ files = {})

\* C20: when no period has a ballot left (none assigned, or all removed by the
\* cuts) the run stops with an error before it writes a file.
C20_NoBallotsAborts ==
    (/\ stage \notin {"idle", "start"}
     /\ \A i \in 1..Len(period_matrices) : period_matrices[i].matrix.columns = <<>>)
        => (stage \in {"built_none", "error"} /\ files = {})

\* the ballots of vote_meta assigned to a period that are columns of votes_df
MatchedBallots(pid) ==
    {b \in Range(votes_df.columns) : AssignExport(rscript, vote_meta[b]) = pid}

\* C21: a period without matched ballots (none assigned to it that is also a
\* column of the input matrix) is not in the dict of period matrices and gets
\* no matrix file.
C21_UnmatchedPeriodAbsent ==
    \A i \in 1..Len(PeriodsOf(rscript)) :
        MatchedBallots(PeriodsOf(rscript)[i].id) = {} =>
            /\ \A j \in 1..Len(period_matrices) :
                  period_matrices[j].id # PeriodsOf(rscript)[i].id
            /\ \A f \in files : f.id # PeriodsOf(rscript)[i].id

\* the second group of ballots is assigned to a period but is not in
\* votes_df: only the first group's period has a matrix and a file
C21_Witness ==
    /\ stage = "exported"
    /\ votes_df.columns # Ballots
    /\ AssignExport(rscript, vote_meta[2 * MaxVotes]) # None
    /\ Len(period_matrices) = 1
    /\ Cardinality(files) = 1

\* C29: in every matrix file written by export_votes_for_dwnominate_from_csv,
\* every ballot column has at least one Yea and at least one Nay among the
\* final common legislator rows.
C29_VariationSurvivesConsistency ==
    (stage = "exported" /\ rscript = "export_5periods") =>
        \A f \in files : \A v \in Range(f.matrix.columns) :
            Yeas(f.matrix, v) > 0 /\ Nays(f.matrix, v) > 0

\* C30: on the same period matrix and with the same two thresholds the
\* participation filter of export_votes_for_dwnominate_from_csv and that of
\* create_period_matrices keep the same legislators and the same ballots.
C30_SameParticipationFilter ==
    /\ fscript = "export_5periods" =>
          LET other == CutsInSequence(period_matrix, MinVotes5, MinLegislators)
          IN  filtered_matrix.index = other.index /\ filtered_matrix.columns = other.columns
    /\ fscript = "prepare_5periods" =>
          LET other == CutsOnPeriodMatrix(period_matrix, MinVotes5, MinLegislators)
          IN  filtered_matrix.index = other.index /\ filtered_matrix.columns = other.columns

\* C28: every cache entry's result_hash is generate_vote_hash of the
\* votation_ids and calculation_params stored in that entry.
C28_KeyIdentifiesEntry ==
    \A i \in 1..Len(collection) :
        collection[i].result_hash =
            generate_vote_hash(collection[i].votation_ids, collection[i].calculation_params)

(***************************************************************************)
(* Building the estimator payload and the vote matrix from the store.      *)
(***************************************************************************)
\* the ballots of the store are 1..MaxBallots; min_votes_per_legislator (20)
\* and min_legislators_per_vote (10) of export_votes_for_r_wnominate, scaled
MaxBallots == 2
MinVotesR == 1
MinLegislatorsR == 1

\* str(diputado.get("id")) of the documents of db["parlamentarios"]
Deputies == <<"1", "2">>

\* the codes of a cast in 'detalle': Yes, No, abstention, a code no mapping
\* lists; NoCast stands for a deputy without a key in 'detalle'
RawCodes == {0, 1, 2, 7}
NoCast == -1

\* the mapping the comments of mapear_voto call the earlier one
MapearVotoOld(valor) == IF valor = 1 THEN 1 ELSE IF valor = 0 THEN -1 ELSE 0

mapear_voto(valor) == IF valor = 1 THEN 1 ELSE IF valor = 0 THEN 0 ELSE 9

\* the dict vote_mapping
vote_mapping == (1 :> 1) @@ (0 :> 0) @@ (2 :> 9) @@ (3 :> 9) @@ (4 :> 9)

\* df['vote'].map(vote_mapping): NaN for a code that is no key, then
\* fillna(9)
VoteNumeric(vote) == IF vote \in DOMAIN vote_mapping THEN vote_mapping[vote] ELSE 9

\* generate_payload(votation_ids): payload['votes'], or the ValueError when no
\* requested id is in db["votaciones"]. A votacion without a VotosDiputados
\* document is passed over with a warning; a deputy without a key in
\* 'detalle' counts as code 2.
GeneratePayloadOf(votation_ids, vots, votos) ==
    LET votaciones_list == SelectSeq(votation_ids, LAMBDA b : b \in vots)
        with_doc == SelectSeq(votaciones_list, LAMBDA b : votos[b].found)
    IN  IF votaciones_list = <<>>
        THEN [raised |-> TRUE, votes |-> <<>>]
        ELSE [raised |-> FALSE,
              votes |-> [i \in 1..Len(with_doc) |->
                  [id |-> with_doc[i],
                   votes |-> [d \in 1..Len(Deputies) |->
                       LET voto_original ==
                               IF votos[with_doc[i]].detalle[Deputies[d]] = NoCast THEN 2
                               ELSE votos[with_doc[i]].detalle[Deputies[d]]
                       IN  mapear_voto(voto_original)]]]]

\* export_votes_for_r_wnominate: votes_data, the pivot table with
\* fill_value=9, both participation masks, votes_matrix.csv; none |-> TRUE
\* when the function returns None
ExportVotesOf(vots, votos) ==
    LET recorded(b, l) == b \in vots /\ votos[b].found /\ votos[b].detalle[l] # NoCast
        vote_ids == SelectSeq([j \in 1..MaxBallots |-> j],
                              LAMBDA b : \E l \in Range(Deputies) : recorded(b, l))
        legislator_ids == SelectSeq(Deputies, LAMBDA l : \E b \in 1..MaxBallots : recorded(b, l))
        pivot == [index |-> legislator_ids,
                  columns |-> vote_ids,
                  cell |-> [x \in Range(legislator_ids) \X Range(vote_ids) |->
                               IF recorded(x[2], x[1])
                               THEN VoteNumeric(votos[x[2]].detalle[x[1]])
                               ELSE 9]]
    IN  IF vots = {} \/ vote_ids = <<>>
        THEN [none |-> TRUE, matrix |-> EmptyFrame]
        ELSE [none |-> FALSE, matrix |-> CutsOnPeriodMatrix(pivot, MinVotesR, MinLegislatorsR)]

InitBuild ==
    /\ votaciones \in SUBSET (1..MaxBallots)
    /\ votos_diputados \in [1..MaxBallots ->
           [found : {TRUE}, detalle : [Range(Deputies) -> RawCodes \cup {NoCast}]]
               \cup {[found |-> FALSE, detalle |-> [l \in Range(Deputies) |-> NoCast]]}]
    /\ \A b \in 1..MaxBallots : b \notin votaciones => ~votos_diputados[b].found
    /\ payload = <<>> /\ vote_matrix = EmptyFrame /\ built = None
    /\ period_vote_ids = <<>>
    /\ idpt = <<>> /\ partido = <<>> /\ idpt_before = <<>> /\ returned = <<>> /\ raised = <<>>
    /\ period_matrix = EmptyFrame /\ fscript = None
    /\ filtered_matrix = EmptyFrame /\ final_matrix = EmptyFrame
    /\ unanimous_count = 0 /\ refiltered = EmptyFrame
    /\ votes_df = EmptyFrame /\ vote_meta = <<>> /\ rscript = None /\ stage = "idle"
    /\ period_matrices = <<>> /\ all_legislators = <<>> /\ files = {}
    /\ collection = <<>> /\ uniqueIndex = FALSE /\ now = 0
    /\ pc = [p \in Procs |-> "idle"]
    /\ req = [p \in Procs |-> NoReq]
    /\ res = [p \in Procs |-> None]
    /\ stored = [p \in Procs |-> FALSE]
    /\ ret = [p \in Procs |-> NoRet]
    /\ lastOp = Op("init")
    /\ hIds = <<>> /\ hParams = <<>> /\ hIds2 = <<>> /\ hParams2 = <<>> /\ hOut = <<>>
    /\ fecha = None /\ script = None /\ period = None /\ excluded = 0

\* generate_payload for the ballots 1..MaxBallots
GeneratePayload ==
    /\ built = None
    /\ LET out == GeneratePayloadOf([j \in 1..MaxBallots |-> j], votaciones, votos_diputados)
       IN  /\ payload' = out.votes
           /\ built' = IF out.raised THEN "generate_payload raised" ELSE "generate_payload"
    /\ UNCHANGED <<period_vote_ids, votaciones, votos_diputados, vote_matrix,
                   polarityVars, filterVars, runVars, cacheVars, hashVars, periodVars>>

\* export_votes_for_r_wnominate
ExportVotesForR ==
    /\ built = None
    /\ LET out == ExportVotesOf(votaciones, votos_diputados)
       IN  /\ vote_matrix' = out.matrix
           /\ built' = IF out.none THEN "export_votes_for_r_wnominate None"
                       ELSE "export_votes_for_r_wnominate"
    /\ UNCHANGED <<period_vote_ids, votaciones, votos_diputados, payload,
                   polarityVars, filterVars, runVars, cacheVars, hashVars, periodVars>>

NextBuild == GeneratePayload \/ ExportVotesForR

SpecBuild == InitBuild /\ [][NextBuild]_vars

\* the code a raw cast stands for: Yea for 1, Nay for 0, 9 for anything else
\* and for a missing cast
Normalized(raw) == IF raw = 1 THEN 1 ELSE IF raw = 0 THEN 0 ELSE 9

C23_MissingBallotDataFails ==
    (\E b \in votaciones : ~votos_diputados[b].found) =>
        built \notin {"generate_payload", "export_votes_for_r_wnominate"}

(***************************************************************************)
(* The columns of a period matrix when the metadata repeats a vote id.     *)
(***************************************************************************)
\* df[ids]: for every label asked for, every column of df that bears it
RECURSIVE SelectColumns(_, _)
SelectColumns(columns, ids) ==
    IF ids = <<>> THEN <<>>
    ELSE SelectSeq(columns, LAMBDA c : c = Head(ids)) \o SelectColumns(columns, Tail(ids))

\* votes_matrix.csv has unique rows and columns; the metadata lists the vote
\* ids of the period in date order, some of them more than once
InitColumns ==
    /\ votes_df \in PeriodMatrixInputs
    /\ period_vote_ids \in UNION {[1..n -> 1..MaxVotes] : n \in 1..(MaxVotes + 1)}
    /\ period_matrix = EmptyFrame /\ fscript = None
    /\ filtered_matrix = EmptyFrame /\ final_matrix = EmptyFrame
    /\ unanimous_count = 0 /\ refiltered = EmptyFrame
    /\ vote_meta = <<>> /\ rscript = None /\ stage = "idle"
    /\ period_matrices = <<>> /\ all_legislators = <<>> /\ files = {}
    /\ votaciones = {} /\ votos_diputados = <<>>
    /\ payload = <<>> /\ vote_matrix = EmptyFrame /\ built = None
    /\ idpt = <<>> /\ partido = <<>> /\ idpt_before = <<>> /\ returned = <<>> /\ raised = <<>>
    /\ collection = <<>> /\ uniqueIndex = FALSE /\ now = 0
    /\ pc = [p \in Procs |-> "idle"]
    /\ req = [p \in Procs |-> NoReq]
    /\ res = [p \in Procs |-> None]
    /\ stored = [p \in Procs |-> FALSE]
    /\ ret = [p \in Procs |-> NoRet]
    /\ lastOp = Op("init")
    /\ hIds = <<>> /\ hParams = <<>> /\ hIds2 = <<>> /\ hParams2 = <<>> /\ hOut = <<>>
    /\ fecha = None /\ script = None /\ period = None /\ excluded = 0

\* create_period_matrices, one period: the columns are selected, cut, put in
\* chronological order by a second selection, and the matrix is saved
ColumnsPrepare5 ==
    /\ fscript = None
    /\ LET available_votes == SelectSeq(period_vote_ids, LAMBDA v : v \in Range(votes_df.columns))
           selected == [index |-> votes_df.index,
                        columns |-> SelectColumns(votes_df.columns, available_votes),
                        cell |-> votes_df.cell]
           cut == CutsInSequence(selected, MinVotes5, MinLegislators)
           available_cols == SelectSeq(period_vote_ids, LAMBDA v : v \in Range(cut.columns))
       IN  /\ period_matrix' = selected
           /\ filtered_matrix' = cut
           /\ final_matrix' = IF available_cols # <<>>
                              THEN [cut EXCEPT !.columns = SelectColumns(cut.columns, available_cols)]
                              ELSE cut
    /\ fscript' = "prepare_5periods"
    /\ UNCHANGED <<unanimous_count, refiltered, period_vote_ids, runVars, cacheVars, hashVars,
                   periodVars, votaciones, votos_diputados, payload, vote_matrix, built,
                   polarityVars>>

\* export_votes_for_dwnominate_from_csv, one period: in the unanimity loop
\* filtered_matrix[vote_id] is a DataFrame when the label is borne by several
\* columns, yeas and nays are Series, and `yeas > 0 and nays > 0` raises
\* ValueError unless the matrix has no row
ColumnsExport5 ==
    /\ fscript = None
    /\ LET available_vote_ids == SelectSeq(period_vote_ids, LAMBDA v : v \in Range(votes_df.columns))
           selected == [index |-> votes_df.index,
                        columns |-> SelectColumns(votes_df.columns, available_vote_ids),
                        cell |-> votes_df.cell]
           cut == CutsOnPeriodMatrix(selected, MinVotes5, MinLegislators)
           ambiguous == /\ cut.index # <<>>
                        /\ \E i, j \in 1..Len(cut.columns) : i # j /\ cut.columns[i] = cut.columns[j]
           kept == UnanimityCut(cut)
           available_cols == SelectSeq(period_vote_ids, LAMBDA v : v \in Range(kept.columns))
       IN  /\ period_matrix' = selected
           /\ filtered_matrix' = cut
           /\ final_matrix' = IF ambiguous THEN EmptyFrame
                              ELSE IF available_cols # <<>>
                              THEN [kept EXCEPT !.columns = SelectColumns(kept.columns, available_cols)]
                              ELSE kept
           /\ fscript' = IF ambiguous THEN "export_5periods raised" ELSE "export_5periods"
    /\ UNCHANGED <<unanimous_count, refiltered, period_vote_ids, runVars, cacheVars, hashVars,
                   periodVars, votaciones, votos_diputados, payload, vote_matrix, built,
                   polarityVars>>

NextColumns == ColumnsPrepare5 \/ ColumnsExport5

SpecColumns == InitColumns /\ [][NextColumns]_vars

\* no element of the sequence occurs twice
NoDuplicate(s) == \A i, j \in 1..Len(s) : s[i] = s[j] => i = j

\* C24: a period matrix that is produced has no ballot column twice and no
\* legislator row twice, also when the metadata lists a vote id twice.
C24_NoDuplicateRowOrColumn ==
    fscript \in {"prepare_5periods", "export_5periods"} =>
        NoDuplicate(final_matrix.columns) /\ NoDuplicate(final_matrix.index)

(***************************************************************************)
(* apply_polarity_correction.                                              *)
(***************************************************************************)
\* first coordinates are the integers -MaxCoord..MaxCoord
MaxCoord == 1

\* the keys of results['idpt'], in dict order: the ids of four members
MemberIds == <<1, 2, 3, 4>>

left_wing_parties == <<"PC", "PS", "PPD", "RD", "PH", "COM", "PEV">>
right_wing_parties == <<"UDI", "RN", "EVOP">>

RECURSIVE SumSeq(_)
SumSeq(s) == IF s = <<>> THEN 0 ELSE Head(s) + SumSeq(Tail(s))

\* np.mean of party_means[p][0] over the parties of a bloc that are in
\* party_means, as the pair (number of such parties, twelve times their sum):
\* a party's mean is the sum of the first coordinates of its members with two
\* coordinates over their number, and 12 is a multiple of every such number
BlocMean(d, par, bloc) ==
    LET members(p) == {i \in 1..Len(d) : d[i].fmt # "none" /\ par[i] = p}
        mean12(p) == (12 * SumSeq([i \in 1..Len(d) |->
                                      IF i \in members(p) THEN d[i].x ELSE 0]))
                         \div Cardinality(members(p))
    IN  [n |-> Cardinality({k \in 1..Len(bloc) : members(bloc[k]) # {}}),
         total12 |-> SumSeq([k \in 1..Len(bloc) |->
                                IF members(bloc[k]) # {} THEN mean12(bloc[k]) ELSE 0])]

\* flip_dim1: neither mean is nan and left_mean_dim1 > right_mean_dim1
FlipDim1(d, par) ==
    LET left == BlocMean(d, par, left_wing_parties)
        right == BlocMean(d, par, right_wing_parties)
    IN  /\ left.n > 0 /\ right.n > 0
        /\ left.total12 * right.n > right.total12 * left.n

\* the loop over corrected_results['idpt'], which shares its entries with
\* results['idpt']: each entry is negated in place, in dict order, until an
\* entry without coordinates raises
FlipLoop(d) ==
    LET failing == {i \in 1..Len(d) : d[i].fmt = "none"}
        stop == IF failing = {} THEN Len(d) + 1
                ELSE CHOOSE i \in failing : \A j \in failing : i <= j
    IN  [idpt |-> [i \in 1..Len(d) |-> IF i < stop THEN [d[i] EXCEPT !.x = -d[i].x] ELSE d[i]],
         raised |-> IF failing # {} THEN "in the loop" ELSE "no"]

\* apply_polarity_correction(results): what results['idpt'] holds when it
\* returns, and where it entered `except Exception`
apply_polarity_correction(d, par) ==
    IF FlipDim1(d, par) THEN FlipLoop(d) ELSE [idpt |-> d, raised |-> "no"]

\* the entries are lists [x, y], dicts {'idpt': [x, y]}, or both in turn; an
\* entry without coordinates has fmt "none"
InitPolarity ==
    /\ \E layout \in {"list", "nested", "mixed"} :
       \E c \in [1..Len(MemberIds) ->
                    [fmt : {"coords"}, x : (-MaxCoord)..MaxCoord, party : {"PC", "PS", "UDI"}]
                        \cup {[fmt |-> "none", x |-> 0, party |-> "PC"]}] :
           /\ idpt = [i \in 1..Len(MemberIds) |->
                         [id |-> MemberIds[i],
                          fmt |-> IF c[i].fmt = "none" THEN "none"
                                  ELSE IF layout = "mixed"
                                       THEN (IF i % 2 = 1 THEN "list" ELSE "nested")
                                       ELSE layout,
                          x |-> c[i].x]]
           /\ partido = [i \in 1..Len(MemberIds) |-> c[i].party]
    /\ idpt_before = <<>> /\ returned = <<>> /\ raised = <<>>
    /\ period_vote_ids = <<>> /\ votaciones = {} /\ votos_diputados = <<>>
    /\ payload = <<>> /\ vote_matrix = EmptyFrame /\ built = None
    /\ period_matrix = EmptyFrame /\ fscript = None
    /\ filtered_matrix = EmptyFrame /\ final_matrix = EmptyFrame
    /\ unanimous_count = 0 /\ refiltered = EmptyFrame
    /\ votes_df = EmptyFrame /\ vote_meta = <<>> /\ rscript = None /\ stage = "idle"
    /\ period_matrices = <<>> /\ all_legislators = <<>> /\ files = {}
    /\ collection = <<>> /\ uniqueIndex = FALSE /\ now = 0
    /\ pc = [p \in Procs |-> "idle"]
    /\ req = [p \in Procs |-> NoReq]
    /\ res = [p \in Procs |-> None]
    /\ stored = [p \in Procs |-> FALSE]
    /\ ret = [p \in Procs |-> NoRet]
    /\ lastOp = Op("init")
    /\ hIds = <<>> /\ hParams = <<>> /\ hIds2 = <<>> /\ hParams2 = <<>> /\ hOut = <<>>
    /\ fecha = None /\ script = None /\ period = None /\ excluded = 0

\* a call of apply_polarity_correction on the results, then on what it
\* returned
ApplyPolarityCorrection ==
    /\ Len(returned) < 2
    /\ LET out == apply_polarity_correction(idpt, partido)
       IN  /\ idpt' = out.idpt
           /\ returned' = Append(returned, out.idpt)
           /\ raised' = Append(raised, out.raised)
    /\ idpt_before' = idpt
    /\ UNCHANGED <<partido, buildVars, filterVars, runVars, cacheVars, hashVars, periodVars>>

\* a call in which get_mongodb_connection or a query raises: the except
\* branch returns results before the flipping loop is reached
ConnectionFails ==
    /\ Len(returned) < 2
    /\ returned' = Append(returned, idpt)
    /\ raised' = Append(raised, "before the loop")
    /\ idpt_before' = idpt
    /\ UNCHANGED <<idpt, partido, buildVars, filterVars, runVars, cacheVars, hashVars, periodVars>>

NextPolarity == ApplyPolarityCorrection \/ ConnectionFails

SpecPolarity == InitPolarity /\ [][NextPolarity]_vars

\* C25: a call negates the first coordinate of every legislator exactly when
\* both reference blocs have a member present and the left bloc's mean on
\* axis 1 is above the right bloc's; otherwise no coordinate changes.
C25_FlipsExactlyWhenLeftAboveRight ==
    (Len(returned) >= 1 /\ raised[Len(raised)] # "before the loop") =>
        IF FlipDim1(idpt_before, partido)
        THEN \A i \in 1..Len(idpt) :
                 idpt_before[i].fmt # "none" => idpt[i].x = -idpt_before[i].x
        ELSE idpt = idpt_before

\* C26: the correction applied to its own output returns coordinates equal to
\* that output.
C26_SecondCallChangesNothing ==
    (Len(returned) = 2 /\ \A k \in 1..2 : raised[k] # "before the loop") =>
        returned[2] = returned[1]

\* C27: when a call enters its except branch, what it returns is the input as
\* it was before the call, with no coordinate flipped.
C27_ErrorLeavesInputUntouched ==
    (Len(returned) >= 1 /\ raised[Len(raised)] # "no") =>
        returned[Len(returned)] = idpt_before

====
